---------------------------- MODULE Spec2Model ----------------------------
(***************************************************************************)
(* A model of src/src/model_clay_v1.py: the masked-autoencoder pipeline    *)
(* (encode_metadata, Encoder, Decoder, ClayMAE, ClayMAEModule).            *)
(*                                                                         *)
(* Tensors are modelled by their index structure.  A row of a [B L] tensor *)
(* is a sequence of length L (positions 1..L) whose entries are the        *)
(* 0-based patch indices the code uses.  Embedding vectors are opaque: a   *)
(* token is a record that says which patch it was computed from and which  *)
(* positional+metadata encoding was added to it.  mask_ratio is the        *)
(* rational ratio/MaskDen; pixel values are small integers.                *)
(*                                                                         *)
(* Specifications:                                                         *)
(*   SpecCtor  ClayMAEModule.__init__ on drawn arguments                   *)
(*   Spec      the life of one constructed ClayMAEModule: train()/eval(),  *)
(*             forward, predict_step                                       *)
(*   SpecMask  Encoder.mask_out called twice on the same encoder           *)
(*   SpecLoss  ClayMAE.per_pixel_loss on drawn inputs                      *)
(*   SpecMeta  encode_metadata on drawn inputs                             *)
(***************************************************************************)
EXTENDS Integers, Sequences, FiniteSets, TLC

\* ------------------------------------------------------------- bounds
\* largest batch size B
MaxB == 2
\* largest patch count L per sample
MaxL == 4
\* largest B * L of one datacube
MaxCells == 8
\* mask_ratio ranges over k / MaskDen, 0 <= k < MaskDen
MaskDen == 8
\* random scores are drawn from 0..NoiseMax (ties included)
NoiseMax == 1
\* pixels per patch (C * P * P in the code), at least 2
PatchDim == 2
\* pixel values are drawn from 0..MaxPixel
MaxPixel == 1
\* largest patch count of the loss specification
MaxLossL == 2
\* largest B * L of the masking specification
MaxMaskCells == 3
\* fixed-point scale of the normalised target of per_pixel_loss
NormScale == 10

\* ------------------------------------------------- program constants
\* clay_mae_tiny: encoder and decoder widths
EncDim == 192
DecDim == 96
\* the default patch size of ClayMAEModule
DefaultPatchSize == 16

\* ------------------------------------------------------------ helpers
Range(s) == {s[i] : i \in DOMAIN s}

Min(a, b) == IF a <= b THEN a ELSE b

\* the set S and the function f written out element by element, so that
\* the model checker works them out once instead of at every use
Enumerated(S) == {x : x \in S}
Tabulated(f) == [x \in DOMAIN f |-> f[x]] @@ <<>>

RECURSIVE SumSeq(_)
SumSeq(s) == IF s = <<>> THEN 0 ELSE Head(s) + SumSeq(Tail(s))

\* int(math.sqrt(n))
ISqrt(n) == CHOOSE g \in 0..n : g * g <= n /\ (g + 1) * (g + 1) > n

\* grid_size = int(math.sqrt(L)); self.num_patches = grid_size**2
GridPatches(L) == ISqrt(L) * ISqrt(L)

\* the mask ratios a model can be configured with (numerators over MaskDen)
MaskRatios == 0..(MaskDen - 1)

\* ---------------------------------------------------- encode_metadata
\* sin and cos of q quarter turns
SinQ(q) == CASE q % 4 = 0 -> 0 [] q % 4 = 1 -> 1 [] q % 4 = 2 -> 0 [] OTHER -> 0 - 1
CosQ(q) == CASE q % 4 = 0 -> 1 [] q % 4 = 1 -> 0 [] q % 4 = 2 -> 0 - 1 [] OTHER -> 0

\* lat * pi / 180, hour * 2 * pi / 24, week * 2 * pi / 52, in quarter turns
\* (the inputs are multiples of 90 degrees, 6 hours and 13 weeks)
DegQuarters(deg) == deg \div 90
HourQuarters(hour) == hour \div 6
WeekQuarters(week) == week \div 13

Lats == {0 - 90, 0, 90}
Lons == {0, 90}
Hours == {0, 6}
Weeks == {0, 13}

\* positions 0..3 of one sample's vector (sequence positions 1..4)
LatLonBlock(latlon, has_lat_lon) ==
    IF has_lat_lon
    THEN << SinQ(DegQuarters(latlon[1])), CosQ(DegQuarters(latlon[1])),
            SinQ(DegQuarters(latlon[2])), CosQ(DegQuarters(latlon[2])) >>
    ELSE << 0, 0, 0, 0 >>

\* positions 4..7: the code fills them under "if not has_time"
TimeBlock(time, has_time) ==
    IF ~has_time
    THEN << SinQ(HourQuarters(time[1])), CosQ(HourQuarters(time[1])),
            SinQ(WeekQuarters(time[2])), CosQ(WeekQuarters(time[2])) >>
    ELSE << 0, 0, 0, 0 >>

\* encode_metadata(time, latlon, has_time, has_lat_lon): [B 8]
EncodeMetadata(time, latlon, has_time, has_lat_lon) ==
    [b \in DOMAIN time |->
        LatLonBlock(latlon[b], has_lat_lon) \o TimeBlock(time[b], has_time)]

\* ------------------------------------------------- Encoder.mask_out
\* the orders of L indices, worked out once for every L in use
PermsOf(L) ==
    Enumerated({p \in [1..L -> 0..(L - 1)] : \A i, j \in 1..L : p[i] = p[j] => i = j})
PermsTable == Tabulated([L \in 0..MaxL |-> PermsOf(L)])
Perms(L) == PermsTable[L]

\* torch.argsort(row): every order that sorts the row ascending (the order
\* of equal scores is not specified)
Argsort(row) ==
    Enumerated({p \in Perms(Len(row)) :
                   \A i \in 1..(Len(row) - 1) : row[p[i] + 1] <= row[p[i + 1] + 1]})

\* the shapes [B L] of the patch tensors in use
Shapes == {s \in (1..MaxB) \X (1..MaxL) : s[1] * s[2] <= MaxCells}

\* a plausible slip: the evaluation-mode scores counted down
EvalNoiseDescending(B, L) ==
    [b \in 1..B |-> [i \in 1..L |-> B * L - 1 - ((b - 1) * L + (i - 1))]]

\* evaluation mode: rearrange(torch.arange(B * L), "(B L) -> B L")
EvalNoise(B, L) == [b \in 1..B |-> [i \in 1..L |-> (b - 1) * L + (i - 1)]]

\* a plausible slip: scores drawn at random in evaluation mode too
NoiseRowsAlwaysRandom(train, B, L, b) == [1..L -> 0..NoiseMax]

\* the rows noise[b] can be: torch.randn in training, EvalNoise otherwise
NoiseRows(train, B, L, b) ==
    IF train THEN [1..L -> 0..NoiseMax] ELSE {EvalNoise(B, L)[b]}

\* random_indices = torch.argsort(noise, dim=-1): every value it can take
RandomIndicesOf(train, B, L) ==
    LET orders == Tabulated([b \in 1..B |->
                      Enumerated(UNION {Argsort(n) : n \in NoiseRows(train, B, L, b)})])
    IN Enumerated({ri \in [1..B -> UNION {orders[b] : b \in 1..B}] :
                      \A b \in 1..B : ri[b] \in orders[b]})
RandomIndicesTable ==
    Tabulated([train \in BOOLEAN, s \in Shapes |->
                  RandomIndicesOf(train, s[1], s[2])])
RandomIndices(train, B, L) == RandomIndicesTable[train, <<B, L>>]

\* reverse_indices = torch.argsort(random_indices, dim=-1)
ReverseIndices(random_indices) ==
    [b \in DOMAIN random_indices |->
        CHOOSE p \in Argsort(random_indices[b]) : TRUE]

\* a plausible slip: the count rounded to nearest instead of truncated
NumMaskedRounded(ratio, num_patches) ==
    (2 * ratio * num_patches + MaskDen) \div (2 * MaskDen)

\* int(self.mask_ratio * self.num_patches)
NumMasked(ratio, num_patches) == (ratio * num_patches) \div MaskDen

\* random_indices[:, :n] and random_indices[:, n:]
MaskedIndices(random_indices, n) ==
    [b \in DOMAIN random_indices |->
        SubSeq(random_indices[b], 1, Min(n, Len(random_indices[b])))]
UnmaskedIndices(random_indices, n) ==
    [b \in DOMAIN random_indices |->
        SubSeq(random_indices[b], Min(n, Len(random_indices[b])) + 1,
               Len(random_indices[b]))]

\* a plausible slip: the structured mask gathered with the shuffle itself
MaskedMatrixByShuffle(random_indices, reverse_indices, n) ==
    [b \in DOMAIN random_indices |->
        [i \in 1..Len(random_indices[b]) |->
            IF random_indices[b][i] + 1 <= n THEN 1 ELSE 0]]

\* zeros(B, L); [:, :n] = 1; torch.gather(.., dim=1, index=reverse_indices)
MaskedMatrix(random_indices, reverse_indices, n) ==
    [b \in DOMAIN random_indices |->
        [i \in 1..Len(random_indices[b]) |->
            IF reverse_indices[b][i] + 1 <= n THEN 1 ELSE 0]]

\* the results of one mask_out call that drew random_indices
MaskOut(random_indices, ratio, num_patches) ==
    LET n == NumMasked(ratio, num_patches)
    IN [random_indices |-> random_indices,
        masked_indices |-> MaskedIndices(random_indices, n),
        unmasked_indices |-> UnmaskedIndices(random_indices, n),
        masked_matrix |->
            MaskedMatrix(random_indices, ReverseIndices(random_indices), n)]


\* ---------------------------------------------------------- datacubes
\* the pixel patches of a datacube: rearrange(cube, "B C (h p1) (w p2) ->
\* B (h w) (C p1 p2)")
CubePatches(B, L) ==
    [b \in 1..B |-> [i \in 1..L |-> [d \in 1..PatchDim |-> (b + i + d) % (MaxPixel + 1)]]]

\* the pixels embed_to_pixels can return (its network is opaque): [B L D]
DecoderPixels(B, L) ==
    {[b \in 1..B |-> [i \in 1..L |-> [d \in 1..PatchDim |-> v]]] : v \in 0..MaxPixel}

\* the datacube of B samples and L patches a caller passes
Datacube(B, L) ==
    [B |-> B, L |-> L,
     time |-> [b \in 1..B |-> <<6 * ((b + 1) % 2), 13 * (b % 2)>>],
     latlon |-> [b \in 1..B |-> <<90 * (b % 2), 90 * ((b + 1) % 2)>>],
     pixels |-> CubePatches(B, L)]

Datacubes ==
    {Datacube(s[1], s[2]) : s \in Shapes}

\* ------------------------------------------------------------- tokens
\* no positional+metadata encoding added
NoEnc == [pos |-> 0 - 1, meta |-> <<>>, dim |-> 0]

\* pos_metadata_encoding[b, i, :]: position i of the sincos grid (width
\* dim - 8) concatenated with sample b's metadata (width 8)
Encoding(dc, b, i, dim) ==
    [pos |-> i,
     meta |-> EncodeMetadata(dc.time, dc.latlon, TRUE, TRUE)[b],
     dim |-> dim]

\* the learned class token
ClsToken == [kind |-> "cls", sample |-> 0, src |-> 0 - 1, stage |-> "param",
             enc |-> NoEnc, dec_enc |-> NoEnc]

\* patch i of sample b after to_patch_embed and add_encodings
PatchToken(dc, b, i) ==
    [kind |-> "patch", sample |-> b, src |-> i, stage |-> "embedded",
     enc |-> Encoding(dc, b, i, EncDim), dec_enc |-> NoEnc]

\* the learned placeholder self.mask_patch
MaskPatch == [kind |-> "mask", sample |-> 0, src |-> 0 - 1, stage |-> "param",
              enc |-> NoEnc, dec_enc |-> NoEnc]

\* an entry of torch.zeros(...) that nothing was written to
ZeroToken == [kind |-> "zero", sample |-> 0, src |-> 0 - 1, stage |-> "zero",
              enc |-> NoEnc, dec_enc |-> NoEnc]

\* a transformer stack and enc_to_dec keep every token at its position;
\* the token's stage records which of them it went through
Through(tokens, stage) ==
    [j \in 1..Len(tokens) |-> [tokens[j] EXCEPT !.stage = stage]]

\* a plausible slip: the leading patches taken instead of the indexed ones
UnmaskedPatchesSliced(dc, unmasked_indices) ==
    [b \in 1..dc.B |->
        [j \in 1..Len(unmasked_indices[b]) |-> PatchToken(dc, b, j - 1)]]

\* patches[batch_indices, unmasked_indices, :]
UnmaskedPatches(dc, unmasked_indices) ==
    [b \in 1..dc.B |->
        [j \in 1..Len(unmasked_indices[b]) |->
            PatchToken(dc, b, unmasked_indices[b][j])]]

\* torch.cat((cls_tokens, unmasked_patches), dim=1): the transformer's input
EncoderInput(dc, unmasked_indices) ==
    [b \in 1..dc.B |-> <<ClsToken>> \o UnmaskedPatches(dc, unmasked_indices)[b]]

\* --------------------------------------------------- Encoder.forward
\* the rows of posemb_sincos_2d_with_gsd(h, w, dim, gsd), a function of
\* src/utils.py: one position vector for every cell of the h x w grid
PosEmbRows(h, w) == h * w

\* a plausible slip: torch.cat taken to broadcast a length of 1, as + does
TorchCatBroadcasts(rows, L) == rows = L \/ rows = 1 \/ L = 1

\* torch.cat((pos_encoding, metadata), dim=-1) of [B rows D-8] and [B L 8]:
\* every axis but the last must agree
TorchCatFits(rows, L) == rows = L

\* whether add_encodings gets through its torch.cat for L patches
EncodingsFit(L) == TorchCatFits(PosEmbRows(ISqrt(L), ISqrt(L)), L)

\* the outcome of Encoder.forward on datacube dc when argsort returns
\* random_indices.  add_encodings sets num_patches and then concatenates a
\* [B num_patches D-8] grid with [B L 8] metadata, which torch.cat refuses
\* unless num_patches = L.
EncoderForward(dc, ratio, random_indices) ==
    LET np == GridPatches(dc.L)
        m == MaskOut(random_indices, ratio, np)
    IN IF ~EncodingsFit(dc.L)
       THEN [ok |-> FALSE, err |-> "RuntimeError: torch.cat sizes",
             num_patches |-> np,
             random_indices |-> <<>>, masked_indices |-> <<>>,
             unmasked_indices |-> <<>>, masked_matrix |-> <<>>,
             encoder_in |-> <<>>, encoded |-> <<>>]
       ELSE [ok |-> TRUE, err |-> "",
             num_patches |-> np,
             random_indices |-> m.random_indices,
             masked_indices |-> m.masked_indices,
             unmasked_indices |-> m.unmasked_indices,
             masked_matrix |-> m.masked_matrix,
             encoder_in |-> EncoderInput(dc, m.unmasked_indices),
             encoded |->
                 [b \in 1..dc.B |->
                     Through(EncoderInput(dc, m.unmasked_indices)[b], "encoded")]]

\* every outcome Encoder.forward can have, worked out once for every
\* datacube, mask ratio and mode
EncoderOutcomesOf(dc, ratio, train) ==
    IF ~EncodingsFit(dc.L)
    THEN {EncoderForward(dc, ratio, <<>>)}
    ELSE {EncoderForward(dc, ratio, ri) : ri \in RandomIndices(train, dc.B, dc.L)}
EncoderOutcomesTable ==
    Tabulated([s \in Shapes, ratio \in MaskRatios, train \in BOOLEAN |->
                  EncoderOutcomesOf(Datacube(s[1], s[2]), ratio, train)])
EncoderOutcomes(dc, ratio, train) ==
    EncoderOutcomesTable[<<dc.B, dc.L>>, ratio, train]

\* ------------------------------------------------------------ Decoder
\* the length of a + b along the patch axis under broadcasting; -1: error
BroadcastLen(a, b) ==
    IF a = b THEN a ELSE IF a = 1 THEN b ELSE IF b = 1 THEN a ELSE 0 - 1

\* decoder_patches[b, i, :] after both indexed writes (the masked write is
\* the later one)
Scatter(dc, dim, unmasked, unmasked_indices, masked_indices, b, i) ==
    IF \E j \in 1..Len(masked_indices[b]) : masked_indices[b][j] = i
    THEN [MaskPatch EXCEPT !.sample = b, !.dec_enc = Encoding(dc, b, i, dim)]
    ELSE IF \E j \in 1..Len(unmasked_indices[b]) : unmasked_indices[b][j] = i
    THEN LET j == CHOOSE j \in 1..Len(unmasked_indices[b]) :
                      unmasked_indices[b][j] = i
         IN [unmasked[b][j] EXCEPT !.dec_enc = Encoding(dc, b, i, dim)]
    ELSE ZeroToken

\* Decoder.reconstruct_and_add_encoding.  encoded is the re-projected encoder
\* output; B, L come from masked_matrix.shape.
ReconstructAndAddEncoding(dc, dim, ratio, encoded, unmasked_indices, masked_indices, masked_matrix) ==
    LET B == Len(masked_matrix)
        L == Len(masked_matrix[1])
        np == GridPatches(L)
        n == NumMasked(ratio, np)
        n_idx == Len(masked_indices[1])
        u_idx == Len(unmasked_indices[1])
        cls == [b \in 1..B |-> Head(encoded[b])]
        unmasked == [b \in 1..B |-> Tail(encoded[b])]
        \* masked_patches + pos_metadata_encoding[batch_indices, masked_indices]
        n_sum == BroadcastLen(n, n_idx)
        \* unmasked_patches + pos_metadata_encoding[.., unmasked_indices]
        u_sum == BroadcastLen(Len(unmasked[1]), u_idx)
        fits == /\ EncodingsFit(L)
                /\ n_sum # 0 - 1
                /\ u_sum # 0 - 1
                /\ \A b \in 1..B :
                      \A j \in 1..Len(unmasked_indices[b]) :
                          unmasked_indices[b][j] < np
                /\ \A b \in 1..B :
                      \A j \in 1..Len(masked_indices[b]) :
                          masked_indices[b][j] < np
                \* the indexed writes take a value of the index's length or 1
                /\ u_sum \in {u_idx, 1}
                /\ n_sum \in {n_idx, 1}
    IN IF ~fits
       THEN [ok |-> FALSE, err |-> "RuntimeError: shape mismatch",
             num_patches |-> np, n_placeholders |-> n, decoder_patches |-> <<>>]
       ELSE [ok |-> TRUE, err |-> "",
             num_patches |-> np, n_placeholders |-> n,
             decoder_patches |->
                 [b \in 1..B |->
                     <<cls[b]>> \o
                     [p \in 1..np |->
                         Scatter(dc, dim, unmasked, unmasked_indices,
                                 masked_indices, b, p - 1)]]]

\* Decoder.forward up to the pixels it returns: the size of pixels[:, 1:, :]
DecoderPixelCount(decoder_patches) ==
    [b \in 1..Len(decoder_patches) |-> Len(Tail(decoder_patches[b]))]

\* ----------------------------------------------- ClayMAE.per_pixel_loss
RECURSIVE SumTo(_, _)
\* f[1] + ... + f[n]
SumTo(f, n) == IF n = 0 THEN 0 ELSE f[n] + SumTo(f, n - 1)

\* (patches - mean) / (var + 1e-6) ** 0.5 for one patch, in units of
\* 1 / NormScale and rounded toward zero.  With D = Len(patch),
\* dev[d] = D * (x[d] - mean) and ss = D^2 * sum((x - mean)^2), the unbiased
\* variance is ss / (D^2 * (D - 1)) and the quotient is
\* dev[d] * sqrt(D - 1) / sqrt(ss); a constant patch gives 0 / sqrt(1e-6) = 0.
NormalisedPatch(patch) ==
    LET D == Len(patch)
        dev == [d \in 1..D |-> D * patch[d] - SumTo(patch, D)]
        ss == SumTo([d \in 1..D |-> dev[d] * dev[d]], D)
        mag(d) == ISqrt((dev[d] * dev[d] * (D - 1) * NormScale * NormScale) \div ss)
    IN [d \in 1..D |->
           IF ss = 0 THEN 0 ELSE IF dev[d] < 0 THEN 0 - mag(d) ELSE mag(d)]

\* the target patch in units of 1 / NormScale
TargetPatch(patch, norm_pix_loss) ==
    IF norm_pix_loss THEN NormalisedPatch(patch)
    ELSE [d \in 1..Len(patch) |-> NormScale * patch[d]]

\* F.mse_loss(.., reduction="none") summed over one patch: D times the
\* per-patch loss, in units of 1 / NormScale^2
PatchSquaredError(patch, pixels, norm_pix_loss) ==
    LET t == TargetPatch(patch, norm_pix_loss)
    IN SumTo([d \in 1..Len(patch) |->
                 (t[d] - NormScale * pixels[d]) * (t[d] - NormScale * pixels[d])],
             Len(patch))

\* a plausible slip: the mean taken over every patch, masked or not
PerPixelLossUnmasked(cube, pixels, masked_matrix, norm_pix_loss) ==
    LET B == Len(masked_matrix)
        L == Len(masked_matrix[1])
        row(b) == SumTo([i \in 1..L |->
                            PatchSquaredError(cube[b][i], pixels[b][i], norm_pix_loss)], L)
    IN [nan |-> FALSE,
        num |-> SumTo([b \in 1..B |-> row(b)], B),
        den |-> PatchDim * NormScale * NormScale * B * L]

\* (loss * masked_matrix).sum() / masked_matrix.sum(): the fraction num / den,
\* or NaN (0 / 0) when no entry of masked_matrix is 1
PerPixelLoss(cube, pixels, masked_matrix, norm_pix_loss) ==
    LET B == Len(masked_matrix)
        L == Len(masked_matrix[1])
        row(b) == SumTo([i \in 1..L |->
                            PatchSquaredError(cube[b][i], pixels[b][i], norm_pix_loss)
                            * masked_matrix[b][i]], L)
        count == SumTo([b \in 1..B |-> SumTo(masked_matrix[b], L)], B)
    IN IF count = 0
       THEN [nan |-> TRUE, num |-> 0, den |-> 0]
       ELSE [nan |-> FALSE,
             num |-> SumTo([b \in 1..B |-> row(b)], B),
             den |-> PatchDim * NormScale * NormScale * count]

\* ------------------------------------------------------------- state
VARIABLES
    pc,         \* "new", "idle", "returned", "failed", or "off"
    module,     \* the ClayMAEModule: hparams, model attributes, __init__'s error
    training,   \* nn.Module.training, set by the caller's train() / eval()
    enc,        \* Encoder attributes: mask_ratio, num_patches
    dec,        \* Decoder attributes: mask_ratio, num_patches
    ret,        \* what the last call computed and returned or raised
    maskIn,     \* SpecMask: the encoder and patches' shape mask_out is called on
    maskRuns,   \* SpecMask: the results of the calls so far
    lossIn,     \* SpecLoss: cube, masked_matrix, norm_pix_loss
    lossPixels, \* SpecLoss: the reconstruction per_pixel_loss was last called on
    lossFirst,  \* SpecLoss: the loss of the first reconstruction
    lossNow,    \* SpecLoss: the loss of lossPixels
    lossPerturbed, \* SpecLoss: whether an unmasked patch was changed since
    metaIn,     \* SpecMeta: the arguments of encode_metadata
    metaOut     \* SpecMeta: its result

lifeVars == <<pc, module, training, enc, dec, ret>>
maskVars == <<maskIn, maskRuns>>
lossVars == <<lossIn, lossPixels, lossFirst, lossNow, lossPerturbed>>
metaVars == <<metaIn, metaOut>>
vars == <<pc, module, training, enc, dec, ret, maskIn, maskRuns,
          lossIn, lossPixels, lossFirst, lossNow, lossPerturbed, metaIn, metaOut>>

NoLoss == [nan |-> FALSE, num |-> 0 - 1, den |-> 0 - 1]

NoRet ==
    [op |-> "none", B |-> 0, L |-> 0, status |-> "none", err |-> "",
     random_indices |-> <<>>, masked_indices |-> <<>>,
     unmasked_indices |-> <<>>, masked_matrix |-> <<>>,
     encoder_in |-> <<>>, decoder_patches |-> <<>>,
     n_placeholders |-> 0 - 1, pixel_count |-> <<>>, loss |-> NoLoss]

NoPart == [mask_ratio |-> 0 - 1, num_patches |-> 0]
NoModel == [mask_ratio |-> 0 - 1, patch_size |-> 0, norm_pix_loss |-> FALSE,
            dim |-> 0, decoder_dim |-> 0]
NoError == [type |-> "", key |-> "", valid |-> {}]

\* the parts of the state a specification does not use
LifeOff ==
    /\ pc = "off"
    /\ module = [status |-> "off", hparams |-> <<>>, model |-> NoModel, error |-> NoError]
    /\ training = FALSE
    /\ enc = NoPart
    /\ dec = NoPart
    /\ ret = NoRet
MaskOff == maskIn = <<>> /\ maskRuns = <<>>
LossOff ==
    /\ lossIn = <<>> /\ lossPixels = <<>> /\ lossFirst = NoLoss /\ lossNow = NoLoss
    /\ lossPerturbed = FALSE
MetaOff == metaIn = <<>> /\ metaOut = <<>>

\* ---------------------------------------------- ClayMAEModule.__init__
\* model_map
ModelMap == {"tiny"}
ModelSizes == {"tiny", "base", "large"}
PatchSizes == {8, 16, 32}

\* a plausible slip: the test of the registry inverted
RegisteredInverted(model_size) == model_size \notin ModelMap

\* model_size in model_map
Registered(model_size) == model_size \in ModelMap

\* Encoder.__init__ and Decoder.__init__: self.mask_ratio = mask_ratio
\* (num_patches is not set until the first forward pass)
EncoderInit(mask_ratio) == [mask_ratio |-> mask_ratio, num_patches |-> 0]
DecoderInit(mask_ratio) == [mask_ratio |-> mask_ratio, num_patches |-> 0]

\* the module, encoder and decoder after ClayMAEModule(model_size,
\* mask_ratio, norm_pix_loss, patch_size)
NewModule(model_size, mask_ratio, patch_size, norm_pix_loss) ==
    LET hp == [model_size |-> model_size, mask_ratio |-> mask_ratio,
               patch_size |-> patch_size, norm_pix_loss |-> norm_pix_loss]
    IN IF Registered(model_size)
       THEN [module |->
                 [status |-> "ready", hparams |-> hp,
                  model |-> [mask_ratio |-> mask_ratio, patch_size |-> patch_size,
                             norm_pix_loss |-> norm_pix_loss,
                             dim |-> EncDim, decoder_dim |-> DecDim],
                  error |-> NoError],
             enc |-> EncoderInit(mask_ratio),
             dec |-> DecoderInit(mask_ratio)]
       ELSE [module |->
                 [status |-> "failed", hparams |-> hp, model |-> NoModel,
                  error |-> [type |-> "ValueError", key |-> model_size,
                             valid |-> ModelMap]],
             enc |-> NoPart,
             dec |-> NoPart]

\* ClayMAEModule(...) is called
Construct ==
    /\ pc = "new"
    /\ \E model_size \in ModelSizes, mask_ratio \in MaskRatios,
          patch_size \in PatchSizes, norm_pix_loss \in BOOLEAN :
          LET new == NewModule(model_size, mask_ratio, patch_size, norm_pix_loss)
          IN /\ module' = new.module
             /\ enc' = new.enc
             /\ dec' = new.dec
             /\ pc' = IF new.module.status = "ready" THEN "idle" ELSE "failed"
    /\ UNCHANGED <<training, ret, maskVars, lossVars, metaVars>>

InitCtor ==
    /\ pc = "new"
    /\ module = [status |-> "new", hparams |-> <<>>, model |-> NoModel, error |-> NoError]
    /\ training = TRUE
    /\ enc = NoPart
    /\ dec = NoPart
    /\ ret = NoRet
    /\ MaskOff /\ LossOff /\ MetaOff

NextCtor == Construct

SpecCtor == InitCtor /\ [][NextCtor]_vars

\* ------------------------------------------------- the module's calls
\* the caller's model.train() or model.eval()
SetTraining ==
    /\ pc = "idle"
    /\ \E flag \in BOOLEAN : flag # training /\ training' = flag
    /\ UNCHANGED <<pc, module, enc, dec, ret, maskVars, lossVars, metaVars>>

\* what an encoder outcome e contributes to ret
EncoderPart(op, dc, e) ==
    [NoRet EXCEPT !.op = op, !.B = dc.B, !.L = dc.L,
                  !.random_indices = e.random_indices,
                  !.masked_indices = e.masked_indices,
                  !.unmasked_indices = e.unmasked_indices,
                  !.masked_matrix = e.masked_matrix,
                  !.encoder_in = e.encoder_in]

\* ClayMAEModule.forward -> ClayMAE.forward: encoder, decoder, loss
Forward ==
    /\ pc = "idle"
    /\ \E dc \in Datacubes :
       \E e \in EncoderOutcomes(dc, enc.mask_ratio, training) :
          LET d == ReconstructAndAddEncoding(
                       dc, module.model.decoder_dim, dec.mask_ratio,
                       [b \in 1..dc.B |-> Through(e.encoded[b], "enc_to_dec")],
                       e.unmasked_indices, e.masked_indices, e.masked_matrix)
          IN /\ enc' = [enc EXCEPT !.num_patches = e.num_patches]
             /\ IF ~e.ok
                THEN /\ ret' = [EncoderPart("forward", dc, e) EXCEPT
                                   !.status = "error", !.err = e.err]
                     /\ dec' = dec
                ELSE IF ~d.ok
                THEN /\ ret' = [EncoderPart("forward", dc, e) EXCEPT
                                   !.status = "error", !.err = d.err,
                                   !.n_placeholders = d.n_placeholders]
                     /\ dec' = [dec EXCEPT !.num_patches = d.num_patches]
                ELSE /\ \E pixels \in DecoderPixels(dc.B, d.num_patches) :
                           ret' = [EncoderPart("forward", dc, e) EXCEPT
                                      !.status = "ok",
                                      !.decoder_patches = d.decoder_patches,
                                      !.n_placeholders = d.n_placeholders,
                                      !.pixel_count = DecoderPixelCount(d.decoder_patches),
                                      !.loss = PerPixelLoss(dc.pixels, pixels,
                                                            e.masked_matrix,
                                                            module.model.norm_pix_loss)]
                     /\ dec' = [dec EXCEPT !.num_patches = d.num_patches]
    /\ pc' = "returned"
    /\ UNCHANGED <<module, training, maskVars, lossVars, metaVars>>

\* ClayMAEModule.predict_step: the encoder's mask_ratio is set to 0.0 and
\* the encoder is run; the shape assertion that follows reads
\* self.model.encoder.B, an attribute Encoder never sets
PredictStep ==
    /\ pc = "idle"
    /\ \E dc \in Datacubes :
       \E e \in EncoderOutcomes(dc, 0, training) :
          /\ enc' = [mask_ratio |-> 0, num_patches |-> e.num_patches]
          /\ ret' = [EncoderPart("predict_step", dc, e) EXCEPT
                        !.status = "error",
                        !.err = IF e.ok THEN "AttributeError: Encoder.B" ELSE e.err]
    /\ pc' = "returned"
    /\ UNCHANGED <<module, training, dec, maskVars, lossVars, metaVars>>

\* the caller drops what the call returned (masks, patch sequences and
\* embeddings do not outlive the call)
Release ==
    /\ pc = "returned"
    /\ pc' = "idle"
    /\ ret' = NoRet
    /\ UNCHANGED <<module, training, enc, dec, maskVars, lossVars, metaVars>>

\* a module constructed with the registered size and the default patch_size
\* and norm_pix_loss, in training mode
Init ==
    /\ pc = "idle"
    /\ \E mask_ratio \in MaskRatios :
          LET new == NewModule("tiny", mask_ratio, DefaultPatchSize, FALSE)
          IN module = new.module /\ enc = new.enc /\ dec = new.dec
    /\ training = TRUE
    /\ ret = NoRet
    /\ MaskOff /\ LossOff /\ MetaOff

Next == SetTraining \/ Forward \/ PredictStep \/ Release

Spec == Init /\ [][Next]_vars

\* ---------------------------------------- SpecMask: mask_out called twice
\* the shapes mask_out is called on: in training mode the results of the
\* two calls multiply, so the shapes are bounded by MaxMaskCells
MaskShapes(train) ==
    IF train THEN {s \in Shapes : s[1] * s[2] <= MaxMaskCells} ELSE Shapes

\* an encoder with a mask ratio and a mode; num_patches is what
\* add_encodings leaves for patches of L positions
InitMask ==
    /\ \E train \in BOOLEAN, ratio \in MaskRatios :
       \E s \in MaskShapes(train) :
          maskIn = [train |-> train, B |-> s[1], L |-> s[2], ratio |-> ratio,
                    num_patches |-> GridPatches(s[2])]
    /\ maskRuns = <<>>
    /\ LifeOff /\ LossOff /\ MetaOff

\* Encoder.mask_out(patches) on patches of shape [B L D] filled with the
\* value fill: its index sets, dense mask and unmasked patches
MaskOutCall ==
    /\ maskIn # <<>>
    /\ Len(maskRuns) < 2
    /\ \E fill \in 0..1 :
       \E ri \in RandomIndices(maskIn.train, maskIn.B, maskIn.L) :
          LET m == MaskOut(ri, maskIn.ratio, maskIn.num_patches)
          IN maskRuns' = Append(maskRuns,
                 [fill |-> fill,
                  out |-> m,
                  unmasked_patches |->
                      [b \in 1..maskIn.B |->
                          [j \in 1..Len(m.unmasked_indices[b]) |->
                              <<m.unmasked_indices[b][j], fill>>]]])
    /\ UNCHANGED <<maskIn, lifeVars, lossVars, metaVars>>

NextMask == MaskOutCall

SpecMask == InitMask /\ [][NextMask]_vars

\* ------------------------------------------ SpecLoss: per_pixel_loss
LossShapes == {s \in (1..MaxB) \X (1..MaxLossL) : s[1] * s[2] <= MaxLossL}

\* the cube's patches: patch i of sample b of cube v has the pixels
\* ((v + b + i) * d) % (MaxPixel + 1), d = 1..PatchDim, so that constant and
\* varying patches both occur
LossCube(B, L, v) ==
    [b \in 1..B |-> [i \in 1..L |->
        [d \in 1..PatchDim |-> ((v + b + i) * d) % (MaxPixel + 1)]]]
\* the patches of the reconstruction
ReconPatchChoices ==
    {[d \in 1..PatchDim |-> (v + k * d) % (MaxPixel + 1)] : v \in 0..MaxPixel, k \in 0..1}

InitLoss ==
    /\ \E s \in LossShapes, norm_pix_loss \in BOOLEAN :
       \E v \in 0..MaxPixel, masked_matrix \in [1..s[1] -> [1..s[2] -> {0, 1}]] :
          lossIn = [B |-> s[1], L |-> s[2], cube |-> LossCube(s[1], s[2], v),
                    masked_matrix |-> masked_matrix,
                    norm_pix_loss |-> norm_pix_loss]
    /\ lossPixels = <<>>
    /\ lossFirst = NoLoss
    /\ lossNow = NoLoss
    /\ lossPerturbed = FALSE
    /\ LifeOff /\ MaskOff /\ MetaOff

\* per_pixel_loss(cube, pixels, masked_matrix) on a first reconstruction
LossCall ==
    /\ lossIn # <<>>
    /\ lossPixels = <<>>
    /\ \E pixels \in [1..lossIn.B -> [1..lossIn.L -> ReconPatchChoices]] :
          /\ lossPixels' = pixels
          /\ lossFirst' = PerPixelLoss(lossIn.cube, pixels, lossIn.masked_matrix,
                                       lossIn.norm_pix_loss)
          /\ lossNow' = lossFirst'
    /\ UNCHANGED <<lossIn, lossPerturbed, lifeVars, maskVars, metaVars>>

\* per_pixel_loss again after the reconstruction of one unmasked patch
\* (mask entry 0) was changed
LossCallPerturbed ==
    /\ lossIn # <<>>
    /\ lossPixels # <<>>
    /\ \E b \in 1..lossIn.B, i \in 1..lossIn.L :
       \E patch \in ReconPatchChoices :
          /\ lossIn.masked_matrix[b][i] = 0
          /\ patch # lossPixels[b][i]
          /\ lossPixels' = [lossPixels EXCEPT ![b][i] = patch]
          /\ lossNow' = PerPixelLoss(lossIn.cube, lossPixels', lossIn.masked_matrix,
                                     lossIn.norm_pix_loss)
    /\ lossPerturbed' = TRUE
    /\ UNCHANGED <<lossIn, lossFirst, lifeVars, maskVars, metaVars>>

NextLoss == LossCall \/ LossCallPerturbed

SpecLoss == InitLoss /\ [][NextLoss]_vars

\* ----------------------------------------- SpecMeta: encode_metadata
InitMeta ==
    /\ \E B \in 1..MaxB, has_time \in BOOLEAN, has_lat_lon \in BOOLEAN :
       \E time \in [1..B -> Hours \X Weeks], latlon \in [1..B -> Lats \X Lons] :
          metaIn = [time |-> time, latlon |-> latlon,
                    has_time |-> has_time, has_lat_lon |-> has_lat_lon]
    /\ metaOut = <<>>
    /\ LifeOff /\ MaskOff /\ LossOff

\* encode_metadata(time, latlon, has_time, has_lat_lon)
EncodeMetadataCall ==
    /\ metaIn # <<>>
    /\ metaOut = <<>>
    /\ metaOut' = EncodeMetadata(metaIn.time, metaIn.latlon,
                                 metaIn.has_time, metaIn.has_lat_lon)
    /\ UNCHANGED <<metaIn, lifeVars, maskVars, lossVars>>

NextMeta == EncodeMetadataCall

SpecMeta == InitMeta /\ [][NextMeta]_vars

\* =============================================================== claims
\* whether the last call got as far as mask_out
Masked == ret.random_indices # <<>>

\* whether s lists every element of 0..(L - 1) exactly once
ListsEachOnce(s, L) ==
    /\ Len(s) = L
    /\ \A i \in 0..(L - 1) : Cardinality({k \in 1..Len(s) : s[k] = i}) = 1

\* round(num / den) as Python rounds: to nearest, halves to the even side
RoundHalfEven(num, den) ==
    LET q == num \div den
        r == num % den
    IN IF 2 * r < den THEN q
       ELSE IF 2 * r > den THEN q + 1
       ELSE IF q % 2 = 0 THEN q ELSE q + 1

\* C1 as stated: for every sample the masked and unmasked indices together
\* list each index of 0..L-1 exactly once, and every sample has
\* round(mask_ratio * L) masked indices.
C1_PartitionWithRoundedCount ==
    Masked =>
        \A b \in 1..ret.B :
            /\ ListsEachOnce(ret.masked_indices[b] \o ret.unmasked_indices[b], ret.L)
            /\ Len(ret.masked_indices[b]) = RoundHalfEven(enc.mask_ratio * ret.L, MaskDen)

\* C1 as amended: the same partition, and every sample has
\* int(mask_ratio * num_patches) masked indices: the product truncated toward
\* zero, with num_patches = L on the square grids the forward pass accepts.
C1_PartitionWithTruncatedCount ==
    Masked =>
        \A b \in 1..ret.B :
            /\ ListsEachOnce(ret.masked_indices[b] \o ret.unmasked_indices[b], ret.L)
            /\ Len(ret.masked_indices[b]) = (enc.mask_ratio * ret.L) \div MaskDen
            /\ Len(ret.masked_indices[b]) = Len(ret.masked_indices[1])

\* C1 witness: a training-mode forward pass of two samples whose shuffles
\* differ, where truncation and rounding disagree (1.5 masked patches).
C1_Witness ==
    /\ Masked /\ training /\ ret.op = "forward"
    /\ ret.B = 2 /\ ret.L = 4
    /\ 2 * enc.mask_ratio * ret.L = 3 * MaskDen
    /\ ret.random_indices[1] # ret.random_indices[2]
    /\ Len(ret.masked_indices[2]) = 1

\* C2: masked_matrix[b][i] = 1 exactly when i is in masked_indices[b] and 0
\* exactly when i is in unmasked_indices[b], in training and in evaluation
\* mode.
C2_DenseMaskMatchesIndices ==
    Masked =>
        \A b \in 1..ret.B :
            /\ Len(ret.masked_matrix[b]) = ret.L
            /\ \A i \in 0..(ret.L - 1) :
                  /\ ret.masked_matrix[b][i + 1] \in {0, 1}
                  /\ ret.masked_matrix[b][i + 1] = 1 <=> i \in Range(ret.masked_indices[b])
                  /\ ret.masked_matrix[b][i + 1] = 0 <=> i \in Range(ret.unmasked_indices[b])

\* C2 witness: a training-mode call whose shuffle is not its own inverse,
\* with masked and unmasked patches.
C2_Witness ==
    /\ Masked /\ training
    /\ ret.masked_indices[1] # <<>> /\ ret.unmasked_indices[1] # <<>>
    /\ \E i \in 1..ret.L :
          ret.random_indices[1][ret.random_indices[1][i] + 1] # i - 1

\* the single patch of the loss inputs whose mask entry is 1
OnlyMasked ==
    CHOOSE c \in (1..lossIn.B) \X (1..lossIn.L) : lossIn.masked_matrix[c[1]][c[2]] = 1
MaskCount ==
    Cardinality({c \in (1..lossIn.B) \X (1..lossIn.L) :
                    lossIn.masked_matrix[c[1]][c[2]] = 1})
\* D times the per-patch error of patch c of the current reconstruction
ErrorAt(c) ==
    PatchSquaredError(lossIn.cube[c[1]][c[2]], lossPixels[c[1]][c[2]],
                      lossIn.norm_pix_loss)

\* C3: changing the reconstruction of patches whose mask entry is 0 leaves
\* the loss unchanged, and with exactly one masked patch the loss is that
\* patch's per-patch error.
C3_LossLocality ==
    lossPixels # <<>> =>
        /\ lossNow.nan = lossFirst.nan
        /\ lossNow.num * lossFirst.den = lossFirst.num * lossNow.den
        /\ MaskCount = 1 =>
              /\ ~lossNow.nan
              /\ lossNow.num * PatchDim * NormScale * NormScale
                     = ErrorAt(OnlyMasked) * lossNow.den

\* C3 witness: one patch is masked and reconstructed with an error, an
\* unmasked patch was changed and is reconstructed with a different error.
C3_Witness ==
    /\ lossPixels # <<>> /\ lossPerturbed
    /\ MaskCount = 1
    /\ ErrorAt(OnlyMasked) > 0
    /\ \E c \in (1..lossIn.B) \X (1..lossIn.L) :
          lossIn.masked_matrix[c[1]][c[2]] = 0 /\ ErrorAt(c) > ErrorAt(OnlyMasked)

\* C4 as stated: a forward pass of a model configured with mask_ratio = 0
\* raises an error; it never returns a loss, NaN included.
C4_ZeroMaskRatioRaises ==
    (pc = "returned" /\ ret.op = "forward" /\ module.model.mask_ratio = 0) =>
        ret.status = "error"

\* C5: two evaluation-mode calls of mask_out with the same B, L and
\* mask_ratio return the same index sets and dense mask, whatever the patches
\* hold.
C5_EvalMaskingRepeats ==
    (maskIn # <<>> /\ ~maskIn.train) =>
        \A i, j \in 1..Len(maskRuns) : maskRuns[i].out = maskRuns[j].out

\* C5 witness: two evaluation-mode calls on patches of different contents,
\* two samples, with masked and unmasked patches.
C5_Witness ==
    /\ maskIn # <<>> /\ ~maskIn.train
    /\ Len(maskRuns) = 2
    /\ maskRuns[1].fill # maskRuns[2].fill
    /\ maskRuns[1].unmasked_patches # maskRuns[2].unmasked_patches
    /\ maskIn.B = 2
    /\ maskRuns[2].out.masked_indices[2] # <<>>
    /\ maskRuns[2].out.unmasked_indices[2] # <<>>

C7_DecoderRebuildsEveryPosition ==
    (ret.op = "forward" /\ Masked) =>
        /\ ret.status = "ok"
        /\ \A b \in 1..ret.B :
              /\ Len(ret.decoder_patches[b]) = 1 + ret.L
              /\ ret.decoder_patches[b][1].kind = "cls"
              /\ \A i \in 0..(ret.L - 1) :
                    LET t == ret.decoder_patches[b][2 + i]
                    IN /\ t.dec_enc.pos = i
                       /\ t.kind # "zero"
                       /\ i \in Range(ret.unmasked_indices[b]) =>
                             t.kind = "patch" /\ t.src = i /\ t.sample = b
                       /\ i \in Range(ret.masked_indices[b]) =>
                             t.kind = "mask"
              /\ ret.pixel_count[b] = ret.L

\* the time block as the flag's name asks for it
TimeBlockByName(time, has_time) ==
    IF has_time
    THEN << SinQ(HourQuarters(time[1])), CosQ(HourQuarters(time[1])),
            SinQ(WeekQuarters(time[2])), CosQ(WeekQuarters(time[2])) >>
    ELSE << 0, 0, 0, 0 >>
LatLonBlockByName(latlon, has_lat_lon) ==
    IF has_lat_lon
    THEN << SinQ(DegQuarters(latlon[1])), CosQ(DegQuarters(latlon[1])),
            SinQ(DegQuarters(latlon[2])), CosQ(DegQuarters(latlon[2])) >>
    ELSE << 0, 0, 0, 0 >>

\* C8 as stated: positions 0..3 hold the lat/lon block when has_lat_lon and
\* zeros otherwise; positions 4..7 hold the time block when has_time and
\* zeros otherwise.
C8_FlagsActByName ==
    metaOut # <<>> =>
        \A b \in 1..Len(metaOut) :
            /\ SubSeq(metaOut[b], 1, 4) =
                   LatLonBlockByName(metaIn.latlon[b], metaIn.has_lat_lon)
            /\ SubSeq(metaOut[b], 5, 8) =
                   TimeBlockByName(metaIn.time[b], metaIn.has_time)

\* C9: an unregistered model_size raises a ValueError that names the key
\* and the valid keys and creates no model; "tiny" raises nothing and
\* creates the model with the given mask_ratio, patch_size and norm_pix_loss.
C9_ConstructorChecksModelSize ==
    pc # "new" =>
        IF module.hparams.model_size = "tiny"
        THEN /\ module.status = "ready" /\ pc = "idle"
             /\ module.error.type = ""
             /\ module.model.mask_ratio = module.hparams.mask_ratio
             /\ module.model.patch_size = module.hparams.patch_size
             /\ module.model.norm_pix_loss = module.hparams.norm_pix_loss
             /\ enc.mask_ratio = module.hparams.mask_ratio
             /\ dec.mask_ratio = module.hparams.mask_ratio
        ELSE /\ module.status = "failed" /\ pc = "failed"
             /\ module.error.type = "ValueError"
             /\ module.error.key = module.hparams.model_size
             /\ module.error.valid = {"tiny"}
             /\ module.model.dim = 0
             /\ enc.mask_ratio < 0 /\ dec.mask_ratio < 0

\* C9 witness: the constructor was called with the unregistered size "base".
C9_Witness ==
    /\ pc = "failed"
    /\ module.hparams.model_size = "base"
    /\ module.error.key = "base"

\* C10 as stated: after any calls the encoder's mask_ratio is the
\* configured one and the decoder's, and a forward pass creates as many
\* placeholders as the encoder returned masked indices.
C10_MaskRatioNeverChanges ==
    /\ enc.mask_ratio = module.model.mask_ratio
    /\ enc.mask_ratio = dec.mask_ratio
    /\ (ret.op = "forward" /\ ret.n_placeholders >= 0) =>
           ret.n_placeholders = Len(ret.masked_indices[1])

\* C11: in evaluation mode, with n masked patches, masked_indices of every
\* sample is [0, ..., n-1] and unmasked_indices is [n, ..., L-1], the same
\* for every sample of the batch.
C11_EvalIdentityOrdering ==
    (maskIn # <<>> /\ ~maskIn.train) =>
        \A r \in 1..Len(maskRuns) :
            \A b \in 1..maskIn.B :
                LET masked == maskRuns[r].out.masked_indices[b]
                    unmasked == maskRuns[r].out.unmasked_indices[b]
                    n == Len(masked)
                IN /\ \A j \in 1..n : masked[j] = j - 1
                   /\ Len(unmasked) = maskIn.L - n
                   /\ \A j \in 1..Len(unmasked) : unmasked[j] = n + j - 1
                   /\ masked = maskRuns[r].out.masked_indices[1]
                   /\ unmasked = maskRuns[r].out.unmasked_indices[1]

\* C11 witness: an evaluation-mode call on two samples of four patches, some
\* masked and at least two unmasked, so the second sample's scores are offset.
C11_Witness ==
    /\ maskIn # <<>> /\ ~maskIn.train
    /\ maskIn.B = 2 /\ maskIn.L = 4
    /\ Len(maskRuns) >= 1
    /\ Len(maskRuns[1].out.masked_indices[2]) >= 1
    /\ Len(maskRuns[1].out.unmasked_indices[2]) >= 2

\* whether n is a perfect square
IsSquare(n) == \E g \in 0..n : g * g = n

\* C12: when L is not a perfect square the Encoder forward pass fails with
\* an error and returns no embeddings, index sets or mask; it never goes on
\* to mask a grid of int(sqrt(L))^2 patches that differs from L.
C12_NonSquareGridFails ==
    (ret.op # "none" /\ ~IsSquare(ret.L)) =>
        /\ ret.status = "error"
        /\ ret.err = "RuntimeError: torch.cat sizes"
        /\ ret.encoder_in = <<>>
        /\ ret.random_indices = <<>>
        /\ ret.masked_indices = <<>>
        /\ ret.unmasked_indices = <<>>
        /\ ret.masked_matrix = <<>>
        /\ ret.decoder_patches = <<>>
        /\ ret.loss.den < 0

\* C12 witness: a forward call on two patches per sample has failed; the
\* encoder is left with a grid of one patch.
C12_Witness ==
    /\ pc = "returned" /\ ret.op = "forward"
    /\ ret.L = 2
    /\ ret.status = "error"
    /\ enc.num_patches = 1

\* C13 as stated: in a forward pass on a perfect-square L, the number of
\* indices the Encoder masks and the number of placeholders the Decoder
\* creates are both mask_ratio * L truncated toward zero, so they agree and
\* neither exceeds mask_ratio * L.
C13_TruncatedCountsAgree ==
    (ret.op = "forward" /\ IsSquare(ret.L) /\ ret.L > 0) =>
        LET want == (module.model.mask_ratio * ret.L) \div MaskDen
        IN /\ ret.n_placeholders >= 0
           /\ \A b \in 1..ret.B : Len(ret.masked_indices[b]) = want
           /\ ret.n_placeholders = want
           /\ ret.n_placeholders * MaskDen <= module.model.mask_ratio * ret.L

=============================================================================
